---- MODULE Spec2Model ----
(***************************************************************************)
(* Model of the Pokemon Evolution Advisor: the evolution resolver          *)
(* (evolution_chains.py), the generated chain table                        *)
(* (generate_evolution_chains.py), the team analyzer (team_analyzer.py),   *)
(* the stat-delta analyzer and the menu session (main.py).                 *)
(*                                                                         *)
(* Strings.  A name is a record [l, c]: l is the text written in upper     *)
(* case and c the letter-case pattern of the spelling ("upper", "lower",   *)
(* "title", or "none" for a text without letters).  str.upper() and        *)
(* str.lower() rewrite the pattern and keep the letters, and two strings   *)
(* are equal exactly when both components are.                             *)
(*                                                                         *)
(* Numbers.  Type-effectiveness multipliers are kept in quarters           *)
(* (0.25 -> 1, 0.5 -> 2, 1 -> 4, 2 -> 8, 4 -> 16); averages are kept as    *)
(* the pair (sum, n).                                                      *)
(***************************************************************************)
EXTENDS Integers, Sequences, FiniteSets, TLC

VARIABLES
    pc,      \* control position: "menu" (at the choice prompt), "loop" (an action
             \* returned), "done" in main(); "ready"/"returned" for direct calls
    df,      \* the loaded dataset, a sequence of rows
    choice,  \* the menu choice taken, or the function called
    arg,     \* the input of the operation: a name or a list of names
    result,  \* the value the operation returned
    raised,  \* the exception the operation raised, "none" otherwise
    caught,  \* where that exception was handled: "none", "action", "main"
    out      \* the kind of message the operation printed last

vars == <<pc, df, choice, arg, result, raised, caught, out>>

----------------------------------------------------------------------------
(* Strings *)

Cases == {"upper", "lower", "title"}

U(text) == [l |-> text, c |-> "upper"]
L(text) == [l |-> text, c |-> "lower"]
T(text) == [l |-> text, c |-> "title"]
EmptyStr == [l |-> "", c |-> "none"]

Upper(s) == IF s.c = "none" THEN s ELSE [s EXCEPT !.c = "upper"]

Lower(s) == IF s.c = "none" THEN s ELSE [s EXCEPT !.c = "lower"]

----------------------------------------------------------------------------
(* evolution_chains.py *)

\* A chain element: a plain stage (one name) or a branch (a list of names).
P(text) == [branch |-> FALSE, names |-> <<U(text)>>]
B(texts) == [branch |-> TRUE, names |-> [i \in 1..Len(texts) |-> U(texts[i])]]
E(text, chain) == [key |-> U(text), chain |-> chain]

Eeveelutions ==
    <<"VAPOREON", "JOLTEON", "FLAREON", "ESPEON", "UMBREON", "LEAFEON",
      "GLACEON", "SYLVEON">>

SPECIAL_CHAINS_typo ==
    << E("EEVEE", <<P("EEVEE"), B(Eeveelutions)>>),
       E("VAPOREON", <<P("VAPOREON")>>),
       E("JOLTEON", <<P("JOLTEON")>>),
       E("FLAREON", <<P("FLAREON")>>),
       E("ESPEON", <<P("ESPEON")>>),
       E("UMBREON", <<P("UMBREON")>>),
       E("LEAFEON", <<P("LEAFEON")>>),
       E("GLACEON", <<P("GLACEON")>>),
       E("SYLVEON", <<P("SYLVEON")>>),
       E("TYROGUE", <<P("TYROGUE"), B(<<"HITMONLEE", "HITMONCHAN", "HITMONTOP">>)>>),
       E("HITMONLEE", <<P("HITMONLEE")>>),
       E("HITMONCHAN", <<P("HITMONCHAN")>>),
       E("HITMONTOP", <<P("HITMONTOP")>>),
       E("ODDISH", <<P("ODDISH"), P("GLOOM"), B(<<"VILEPLUME", "BELLOSSOM">>)>>),
       E("GLOOM", <<P("GLOOM"), B(<<"VILEPLUME", "BELLOSSOM">>)>>),
       E("VILEPLUME", <<P("VILEPLUME")>>),
       E("BELLOSSOM", <<P("BELLOSSOM")>>),
       E("POLIWAG", <<P("POLIWAG"), P("POLIWHIRL"), B(<<"POLIWRATH", "POLITOED">>)>>),
       E("POLIWHIRL", <<P("POLIWHIRL"), B(<<"POLIWRATH", "POLITOED">>)>>),
       E("POLIWRATH", <<P("POLIWRATH")>>),
       E("POLITOED", <<P("POLITOED")>>),
       E("BULBASAUR", <<P("BULBASAUR"), P("IVYSAUR"), P("VENUSAUR")>>),
       E("IVYSAUR", <<P("IVYSAUR"), P("VENASAUR")>>),
       E("VENUSAUR", <<P("VENUSAUR")>>),
       E("CHARMANDER", <<P("CHARMANDER"), P("CHARMELEON"), P("CHARIZARD")>>),
       E("CHARMELEON", <<P("CHARMELEON"), P("CHARIZARD")>>),
       E("CHARIZARD", <<P("CHARIZARD")>>),
       E("SQUIRTLE", <<P("SQUIRTLE"), P("WARTORTLE"), P("BLASTOISE")>>),
       E("WARTORTLE", <<P("WARTORTLE"), P("BLASTOISE")>>),
       E("BLASTOISE", <<P("BLASTOISE")>>) >>

SPECIAL_CHAINS ==
    << E("EEVEE", <<P("EEVEE"), B(Eeveelutions)>>),
       E("VAPOREON", <<P("VAPOREON")>>),
       E("JOLTEON", <<P("JOLTEON")>>),
       E("FLAREON", <<P("FLAREON")>>),
       E("ESPEON", <<P("ESPEON")>>),
       E("UMBREON", <<P("UMBREON")>>),
       E("LEAFEON", <<P("LEAFEON")>>),
       E("GLACEON", <<P("GLACEON")>>),
       E("SYLVEON", <<P("SYLVEON")>>),
       E("TYROGUE", <<P("TYROGUE"), B(<<"HITMONLEE", "HITMONCHAN", "HITMONTOP">>)>>),
       E("HITMONLEE", <<P("HITMONLEE")>>),
       E("HITMONCHAN", <<P("HITMONCHAN")>>),
       E("HITMONTOP", <<P("HITMONTOP")>>),
       E("ODDISH", <<P("ODDISH"), P("GLOOM"), B(<<"VILEPLUME", "BELLOSSOM">>)>>),
       E("GLOOM", <<P("GLOOM"), B(<<"VILEPLUME", "BELLOSSOM">>)>>),
       E("VILEPLUME", <<P("VILEPLUME")>>),
       E("BELLOSSOM", <<P("BELLOSSOM")>>),
       E("POLIWAG", <<P("POLIWAG"), P("POLIWHIRL"), B(<<"POLIWRATH", "POLITOED">>)>>),
       E("POLIWHIRL", <<P("POLIWHIRL"), B(<<"POLIWRATH", "POLITOED">>)>>),
       E("POLIWRATH", <<P("POLIWRATH")>>),
       E("POLITOED", <<P("POLITOED")>>),
       E("BULBASAUR", <<P("BULBASAUR"), P("IVYSAUR"), P("VENUSAUR")>>),
       E("IVYSAUR", <<P("IVYSAUR"), P("VENUSAUR")>>),
       E("VENUSAUR", <<P("VENUSAUR")>>),
       E("CHARMANDER", <<P("CHARMANDER"), P("CHARMELEON"), P("CHARIZARD")>>),
       E("CHARMELEON", <<P("CHARMELEON"), P("CHARIZARD")>>),
       E("CHARIZARD", <<P("CHARIZARD")>>),
       E("SQUIRTLE", <<P("SQUIRTLE"), P("WARTORTLE"), P("BLASTOISE")>>),
       E("WARTORTLE", <<P("WARTORTLE"), P("BLASTOISE")>>),
       E("BLASTOISE", <<P("BLASTOISE")>>) >>

\* Python's None, as the value of a chain and as the value of a chain element.
NoChain == [found |-> FALSE, chain |-> <<>>]
NoStage == [found |-> FALSE, branch |-> FALSE, names |-> <<>>]

SomeChain(chain) == [found |-> TRUE, chain |-> chain]
SomeStage(stage) == [found |-> TRUE, branch |-> stage.branch, names |-> stage.names]

\* pokemon_name in SPECIAL_CHAINS
HasKey(name) == \E k \in 1..Len(SPECIAL_CHAINS) : SPECIAL_CHAINS[k].key = name

\* SPECIAL_CHAINS[pokemon_name]
ChainOfKey(name) ==
    SPECIAL_CHAINS[CHOOSE k \in 1..Len(SPECIAL_CHAINS) : SPECIAL_CHAINS[k].key = name].chain

\* pokemon_name in chain: a string equals only a plain element of the list
InChain(name, chain) ==
    \E i \in 1..Len(chain) : ~chain[i].branch /\ chain[i].names[1] = name

\* chain.index(pokemon_name)
IndexIn(name, chain) ==
    CHOOSE i \in 1..Len(chain) :
        /\ ~chain[i].branch /\ chain[i].names[1] = name
        /\ \A j \in 1..(i - 1) : chain[j].branch \/ chain[j].names[1] # name

\* any(isinstance(item, list) and pokemon_name in item for item in chain)
InBranch(name, chain) ==
    \E i \in 1..Len(chain) :
        chain[i].branch /\ \E j \in 1..Len(chain[i].names) : chain[i].names[j] = name

\* the loop over SPECIAL_CHAINS.values(), from the k-th entry on
RECURSIVE ScanChains(_, _)
ScanChains(name, k) ==
    IF k > Len(SPECIAL_CHAINS) THEN NoChain
    ELSE LET chain == SPECIAL_CHAINS[k].chain IN
         IF InChain(name, chain)
         THEN SomeChain(SubSeq(chain, IndexIn(name, chain), Len(chain)))
         ELSE IF InBranch(name, chain)
         THEN SomeChain(<<[branch |-> FALSE, names |-> <<name>>]>>)
         ELSE ScanChains(name, k + 1)

get_evolution_chain_no_upper(pokemon_name) ==
    LET name == pokemon_name IN
    IF HasKey(name) THEN SomeChain(ChainOfKey(name)) ELSE ScanChains(name, 1)

get_evolution_chain(pokemon_name) ==
    LET name == Upper(pokemon_name) IN
    IF HasKey(name) THEN SomeChain(ChainOfKey(name)) ELSE ScanChains(name, 1)

get_next_evolution_last(pokemon_name) ==
    LET r == get_evolution_chain(pokemon_name) IN
    IF ~r.found \/ Len(r.chain) = 0 THEN NoStage
    ELSE IF Len(r.chain) > 1 THEN SomeStage(r.chain[Len(r.chain)])
    ELSE NoStage

get_next_evolution_first(pokemon_name) ==
    LET r == get_evolution_chain(pokemon_name) IN
    IF ~r.found \/ Len(r.chain) = 0 THEN NoStage
    ELSE SomeStage(r.chain[1])

get_next_evolution(pokemon_name) ==
    LET r == get_evolution_chain(pokemon_name) IN
    IF ~r.found \/ Len(r.chain) = 0 THEN NoStage
    ELSE IF Len(r.chain) > 1 THEN SomeStage(r.chain[2])
    ELSE NoStage

get_final_evolution_second(pokemon_name) ==
    LET r == get_evolution_chain(pokemon_name) IN
    IF ~r.found \/ Len(r.chain) = 0 THEN NoStage
    ELSE SomeStage(r.chain[IF Len(r.chain) > 1 THEN 2 ELSE 1])

get_final_evolution(pokemon_name) ==
    LET r == get_evolution_chain(pokemon_name) IN
    IF ~r.found \/ Len(r.chain) = 0 THEN NoStage
    ELSE SomeStage(r.chain[Len(r.chain)])

----------------------------------------------------------------------------
(* Inputs of the resolver *)

\* every text of the chain table
RECURSIVE StageTexts(_, _)
StageTexts(chain, i) ==
    IF i > Len(chain) THEN {}
    ELSE {chain[i].names[j].l : j \in 1..Len(chain[i].names)} \cup StageTexts(chain, i + 1)

TableTexts ==
    UNION {StageTexts(SPECIAL_CHAINS[k].chain, 1) : k \in 1..Len(SPECIAL_CHAINS)}
        \cup {SPECIAL_CHAINS[k].key.l : k \in 1..Len(SPECIAL_CHAINS)}

UnknownTexts == {"MEWTWO", "PIKACHU"}

NameInputs ==
    {[l |-> t, c |-> c] : t \in TableTexts \cup UnknownTexts, c \in Cases} \cup {EmptyStr}

----------------------------------------------------------------------------
(* Direct calls of the resolver's functions *)

InitResolver ==
    /\ pc = "ready"
    /\ df = <<>>
    /\ choice = "none"
    /\ arg = EmptyStr
    /\ result = NoChain
    /\ raised = "none"
    /\ caught = "none"
    /\ out = "none"

CallGetEvolutionChain(n) ==
    /\ pc = "ready"
    /\ choice' = "get_evolution_chain"
    /\ arg' = n
    /\ result' = get_evolution_chain(n)
    /\ UNCHANGED <<pc, df, raised, caught, out>>

CallGetNextEvolution(n) ==
    /\ pc = "ready"
    /\ choice' = "get_next_evolution"
    /\ arg' = n
    /\ result' = get_next_evolution(n)
    /\ UNCHANGED <<pc, df, raised, caught, out>>

CallGetFinalEvolution(n) ==
    /\ pc = "ready"
    /\ choice' = "get_final_evolution"
    /\ arg' = n
    /\ result' = get_final_evolution(n)
    /\ UNCHANGED <<pc, df, raised, caught, out>>

NextResolver ==
    \/ \E n \in NameInputs : CallGetEvolutionChain(n)
    \/ \E n \in NameInputs : CallGetNextEvolution(n)
    \/ \E n \in NameInputs : CallGetFinalEvolution(n)

SpecResolver == InitResolver /\ [][NextResolver]_vars

----------------------------------------------------------------------------
(* The dataset: pokemon.csv as read by pd.read_csv *)

\* the against_<type> columns, in column order
TypeColumns == <<"fire", "water", "grass", "normal">>

Types == {TypeColumns[i] : i \in 1..Len(TypeColumns)}

\* the multiplier 1, in quarters
One == 4

\* a missing type2
NaN == [l |-> "nan", c |-> "none"]

Stats == {"hp", "attack", "defense", "sp_attack", "sp_defense", "speed"}

Row(name, pokedex_number, generation, type1, type2, st, legendary, ag) ==
    [name |-> name, pokedex_number |-> pokedex_number, generation |-> generation,
     type1 |-> type1, type2 |-> type2,
     hp |-> st[1], attack |-> st[2], defense |-> st[3],
     sp_attack |-> st[4], sp_defense |-> st[5], speed |-> st[6],
     base_total |-> st[1] + st[2] + st[3] + st[4] + st[5] + st[6],
     is_legendary |-> legendary,
     against |-> [t \in Types |-> ag[CHOOSE i \in 1..Len(TypeColumns) : TypeColumns[i] = t]]]

Eevee ==
    Row(T("EEVEE"), 133, 1, L("NORMAL"), NaN, <<55, 55, 50, 45, 65, 55>>, FALSE, <<4, 4, 4, 4>>)

Vaporeon ==
    Row(T("VAPOREON"), 134, 1, L("WATER"), NaN, <<130, 65, 60, 110, 95, 65>>, FALSE, <<2, 2, 8, 4>>)

Jolteon ==
    Row(T("JOLTEON"), 135, 1, L("ELECTRIC"), NaN, <<65, 65, 60, 110, 95, 130>>, FALSE, <<4, 4, 4, 4>>)

Flareon ==
    Row(T("FLAREON"), 136, 1, L("FIRE"), NaN, <<65, 130, 60, 95, 110, 65>>, FALSE, <<2, 8, 2, 4>>)

Espeon ==
    Row(T("ESPEON"), 196, 2, L("PSYCHIC"), NaN, <<65, 65, 60, 130, 95, 110>>, FALSE, <<4, 4, 4, 4>>)

Umbreon ==
    Row(T("UMBREON"), 197, 2, L("DARK"), NaN, <<95, 65, 110, 60, 130, 65>>, FALSE, <<4, 4, 4, 4>>)

Leafeon ==
    Row(T("LEAFEON"), 470, 4, L("GRASS"), NaN, <<65, 110, 130, 60, 65, 95>>, FALSE, <<8, 2, 2, 4>>)

Glaceon ==
    Row(T("GLACEON"), 471, 4, L("ICE"), NaN, <<65, 60, 110, 130, 95, 65>>, FALSE, <<8, 4, 4, 4>>)

Sylveon ==
    Row(T("SYLVEON"), 700, 6, L("FAIRY"), NaN, <<95, 65, 65, 110, 130, 60>>, FALSE, <<4, 4, 4, 4>>)

Tyrogue ==
    Row(T("TYROGUE"), 236, 2, L("FIGHTING"), NaN, <<35, 35, 35, 35, 35, 35>>, FALSE, <<4, 4, 4, 4>>)

Hitmonlee ==
    Row(T("HITMONLEE"), 106, 1, L("FIGHTING"), NaN, <<50, 120, 53, 35, 110, 87>>, FALSE, <<4, 4, 4, 4>>)

Hitmonchan ==
    Row(T("HITMONCHAN"), 107, 1, L("FIGHTING"), NaN, <<50, 105, 79, 35, 110, 76>>, FALSE, <<4, 4, 4, 4>>)

Hitmontop ==
    Row(T("HITMONTOP"), 237, 2, L("FIGHTING"), NaN, <<50, 95, 95, 35, 110, 70>>, FALSE, <<4, 4, 4, 4>>)

Oddish ==
    Row(T("ODDISH"), 43, 1, L("GRASS"), L("POISON"), <<45, 50, 55, 75, 65, 30>>, FALSE, <<8, 2, 1, 4>>)

Gloom ==
    Row(T("GLOOM"), 44, 1, L("GRASS"), L("POISON"), <<60, 65, 70, 85, 75, 40>>, FALSE, <<8, 2, 1, 4>>)

Vileplume ==
    Row(T("VILEPLUME"), 45, 1, L("GRASS"), L("POISON"), <<75, 80, 85, 110, 90, 50>>, FALSE, <<8, 2, 1, 4>>)

Bellossom ==
    Row(T("BELLOSSOM"), 182, 2, L("GRASS"), NaN, <<75, 80, 95, 90, 100, 50>>, FALSE, <<8, 2, 2, 4>>)

Poliwag ==
    Row(T("POLIWAG"), 60, 1, L("WATER"), NaN, <<40, 50, 40, 40, 40, 90>>, FALSE, <<2, 2, 8, 4>>)

Poliwhirl ==
    Row(T("POLIWHIRL"), 61, 1, L("WATER"), NaN, <<65, 65, 65, 50, 50, 90>>, FALSE, <<2, 2, 8, 4>>)

Poliwrath ==
    Row(T("POLIWRATH"), 62, 1, L("WATER"), L("FIGHTING"), <<90, 95, 95, 70, 90, 70>>, FALSE, <<2, 2, 8, 4>>)

Politoed ==
    Row(T("POLITOED"), 186, 2, L("WATER"), NaN, <<90, 75, 75, 90, 100, 70>>, FALSE, <<2, 2, 8, 4>>)

Bulbasaur ==
    Row(T("BULBASAUR"), 1, 1, L("GRASS"), L("POISON"), <<45, 49, 49, 65, 65, 45>>, FALSE, <<8, 2, 1, 4>>)

Ivysaur ==
    Row(T("IVYSAUR"), 2, 1, L("GRASS"), L("POISON"), <<60, 62, 63, 80, 80, 60>>, FALSE, <<8, 2, 1, 4>>)

Venusaur ==
    Row(T("VENUSAUR"), 3, 1, L("GRASS"), L("POISON"), <<80, 82, 83, 100, 100, 80>>, FALSE, <<8, 2, 1, 4>>)

Charmander ==
    Row(T("CHARMANDER"), 4, 1, L("FIRE"), NaN, <<39, 52, 43, 60, 50, 65>>, FALSE, <<2, 8, 2, 4>>)

Charmeleon ==
    Row(T("CHARMELEON"), 5, 1, L("FIRE"), NaN, <<58, 64, 58, 80, 65, 80>>, FALSE, <<2, 8, 2, 4>>)

Charizard ==
    Row(T("CHARIZARD"), 6, 1, L("FIRE"), L("FLYING"), <<78, 84, 78, 109, 85, 100>>, FALSE, <<2, 8, 1, 4>>)

Squirtle ==
    Row(T("SQUIRTLE"), 7, 1, L("WATER"), NaN, <<44, 48, 65, 50, 64, 43>>, FALSE, <<2, 2, 8, 4>>)

Wartortle ==
    Row(T("WARTORTLE"), 8, 1, L("WATER"), NaN, <<59, 63, 80, 65, 80, 58>>, FALSE, <<2, 2, 8, 4>>)

Blastoise ==
    Row(T("BLASTOISE"), 9, 1, L("WATER"), NaN, <<79, 83, 100, 85, 105, 78>>, FALSE, <<2, 2, 8, 4>>)

Arcanine ==
    Row(T("ARCANINE"), 59, 1, L("FIRE"), NaN, <<90, 110, 80, 100, 80, 95>>, FALSE, <<2, 8, 2, 4>>)

Moltres ==
    Row(T("MOLTRES"), 146, 1, L("FIRE"), L("FLYING"), <<90, 100, 90, 125, 85, 90>>, TRUE, <<2, 8, 1, 4>>)

Mewtwo ==
    Row(T("MEWTWO"), 150, 1, L("PSYCHIC"), NaN, <<106, 110, 90, 154, 90, 130>>, TRUE, <<4, 4, 4, 4>>)

\* a second row spelling a name that is already there
OddishAgain ==
    Row(U("ODDISH"), 802, 7, L("WATER"), NaN, <<50, 50, 50, 50, 50, 50>>, FALSE, <<2, 2, 8, 4>>)

\* every creature of the chain table has a row
FullDataset ==
    <<Eevee, Vaporeon, Jolteon, Flareon, Espeon, Umbreon, Leafeon, Glaceon,
      Sylveon, Tyrogue, Hitmonlee, Hitmonchan, Hitmontop, Oddish, Gloom,
      Vileplume, Bellossom, Poliwag, Poliwhirl, Poliwrath, Politoed,
      Bulbasaur, Ivysaur, Venusaur, Charmander, Charmeleon, Charizard,
      Squirtle, Wartortle, Blastoise, Arcanine, Moltres, Mewtwo>>

\* generation 1 only: BELLOSSOM and the other later creatures have no row
Gen1Dataset ==
    <<Eevee, Vaporeon, Jolteon, Flareon, Hitmonlee, Hitmonchan, Oddish,
      Gloom, Vileplume, Poliwag, Poliwhirl, Poliwrath, Bulbasaur, Ivysaur,
      Venusaur, Charmander, Charmeleon, Charizard, Squirtle, Wartortle,
      Blastoise, Arcanine, Moltres, Mewtwo>>

\* a file in which one name is spelled by two rows
RepeatedNameDataset ==
    SubSeq(FullDataset, 1, 14) \o <<OddishAgain>> \o SubSeq(FullDataset, 15, Len(FullDataset))

Datasets == {Gen1Dataset, FullDataset, RepeatedNameDataset}

----------------------------------------------------------------------------
(* team_analyzer.py *)

MinOf(S) == CHOOSE x \in S : \A y \in S : x <= y
MaxOf(S) == CHOOSE x \in S : \A y \in S : x >= y

RECURSIVE SumSeq(_, _)
SumSeq(f, i) == IF i = 0 THEN 0 ELSE f[i] + SumSeq(f, i - 1)

MatchingRowsCaseSensitive(name) == {i \in 1..Len(df) : df[i].name = name}

\* self.df[self.df['name'].str.lower() == name.lower()]
MatchingRows(name) == {i \in 1..Len(df) : Lower(df[i].name) = Lower(name)}

\* .iloc[0] of the matching rows; IndexError when there is none
Found(name) == MatchingRows(name) # {}

get_pokemon_data(name) == df[MinOf(MatchingRows(name))]

\* team_data of analyze_team, when every name is found
TeamData(team) == [i \in 1..Len(team) |-> get_pokemon_data(team[i])]

Effectiveness(team_data) ==
    [t \in Types |-> MinOf({team_data[i].against[t] : i \in 1..Len(team_data)})]

_analyze_defense_inclusive(team_data) ==
    LET effectiveness == Effectiveness(team_data) IN
    [weaknesses |-> SelectSeq(TypeColumns, LAMBDA t : effectiveness[t] >= One),
     resistances |-> SelectSeq(TypeColumns, LAMBDA t : effectiveness[t] < One),
     effectiveness |-> effectiveness]

_analyze_defense(team_data) ==
    LET effectiveness == Effectiveness(team_data) IN
    [weaknesses |-> SelectSeq(TypeColumns, LAMBDA t : effectiveness[t] > One),
     resistances |-> SelectSeq(TypeColumns, LAMBDA t : effectiveness[t] < One),
     effectiveness |-> effectiveness]

_analyze_offense(team_data) ==
    {Lower(team_data[i].type1) : i \in 1..Len(team_data)}
        \cup {Lower(team_data[i].type2) :
                  i \in {j \in 1..Len(team_data) : team_data[j].type2 # NaN}}

\* names.count(name)
CountOf(name, team_data) ==
    Cardinality({i \in 1..Len(team_data) : team_data[i].name = name})

StatOf(row, stat) ==
    CASE stat = "hp" -> row.hp
      [] stat = "attack" -> row.attack
      [] stat = "defense" -> row.defense
      [] stat = "sp_attack" -> row.sp_attack
      [] stat = "sp_defense" -> row.sp_defense
      [] stat = "speed" -> row.speed

DuplicatesFromOne(team_data) ==
    LET names == {team_data[i].name : i \in 1..Len(team_data)}
        dups == {n \in names : CountOf(n, team_data) >= 1}
    IN [n \in dups |-> CountOf(n, team_data)]

\* {name: names.count(name) for name in set(names) if names.count(name) > 1}
Duplicates(team_data) ==
    LET names == {team_data[i].name : i \in 1..Len(team_data)}
        dups == {n \in names : CountOf(n, team_data) > 1}
    IN [n \in dups |-> CountOf(n, team_data)]

StatAnalysis(team_data) ==
    [stat \in Stats |->
        LET vals == {StatOf(team_data[i], stat) : i \in 1..Len(team_data)} IN
        [avg |-> [sum |-> SumSeq([i \in 1..Len(team_data) |-> StatOf(team_data[i], stat)],
                                 Len(team_data)),
                  n |-> Len(team_data)],
         min |-> MinOf(vals),
         max |-> MaxOf(vals)]]

_analyze_balance(team_data) ==
    [duplicates |-> Duplicates(team_data), stats |-> StatAnalysis(team_data)]

\* the orders in which the duplicates dict, built from a set of strings, can
\* be iterated
Orders(S) ==
    {o \in [1..Cardinality(S) -> S] : \A i, j \in 1..Cardinality(S) : o[i] = o[j] => i = j}

InStatRangeNoUpper(base_total, sum, n) ==
    4 * sum <= 5 * n * base_total

\* base_total.between(avg - avg * 0.20, avg + avg * 0.20), bounds included,
\* with avg = sum / n; the comparison is made on exact fractions
InStatRange(base_total, sum, n) ==
    /\ 4 * sum <= 5 * n * base_total
    /\ 5 * n * base_total <= 6 * sum

\* name.isin(team): the row's name is one of the strings of the input list
IsIn(name, team) == \E i \in 1..Len(team) : team[i] = name

\* .nlargest(3, 'base_total') of the rows of df at the indices in idx: the
\* highest totals first, rows of equal total in file order
RECURSIVE NLargest(_, _)
NLargest(idx, k) ==
    IF k = 0 \/ idx = {} THEN <<>>
    ELSE LET top == MaxOf({df[i].base_total : i \in idx})
             first == MinOf({i \in idx : df[i].base_total = top})
         IN <<df[first]>> \o NLargest(idx \ {first}, k - 1)

SuggestionCap == 3

\* generate_evolution_chains.py: the table written to evolution_chains.json
\* when TeamAnalyzer finds no such file

\* name.endswith(('-O', '-M', ' X', ' Y', '-Attack', ...)) holds of no name of
\* the datasets, so get_base_name returns the name
get_base_name(name) == name

\* the first four letters of the names of the datasets
FirstFourOf ==
    [t \in {} |-> ""]
    @@ ("ARCANINE" :> "ARCA") @@ ("BELLOSSOM" :> "BELL") @@ ("BLASTOISE" :> "BLAS")
    @@ ("BULBASAUR" :> "BULB") @@ ("CHARIZARD" :> "CHAR") @@ ("CHARMANDER" :> "CHAR")
    @@ ("CHARMELEON" :> "CHAR") @@ ("EEVEE" :> "EEVE") @@ ("ESPEON" :> "ESPE")
    @@ ("FLAREON" :> "FLAR") @@ ("GLACEON" :> "GLAC") @@ ("GLOOM" :> "GLOO")
    @@ ("HITMONCHAN" :> "HITM") @@ ("HITMONLEE" :> "HITM") @@ ("HITMONTOP" :> "HITM")
    @@ ("IVYSAUR" :> "IVYS") @@ ("JOLTEON" :> "JOLT") @@ ("LEAFEON" :> "LEAF")
    @@ ("MEWTWO" :> "MEWT") @@ ("MOLTRES" :> "MOLT") @@ ("ODDISH" :> "ODDI")
    @@ ("POLITOED" :> "POLI") @@ ("POLIWAG" :> "POLI") @@ ("POLIWHIRL" :> "POLI")
    @@ ("POLIWRATH" :> "POLI") @@ ("SQUIRTLE" :> "SQUI") @@ ("SYLVEON" :> "SYLV")
    @@ ("TYROGUE" :> "TYRO") @@ ("UMBREON" :> "UMBR") @@ ("VAPOREON" :> "VAPO")
    @@ ("VENUSAUR" :> "VENU") @@ ("VILEPLUME" :> "VILE") @@ ("WARTORTLE" :> "WART")

\* evo_name.startswith(base_name[:4]), both names in upper case and of four
\* letters or more
StartsWithFirstFour(evo_name, base_name) ==
    evo_name.c = base_name.c /\ FirstFourOf[evo_name.l] = FirstFourOf[base_name.l]

\* sort_values: the indices in idx in ascending order of key, indices of
\* equal key in their order
SortValues(idx, key) ==
    LET before(i) ==
            Cardinality({j \in idx : key[j] < key[i] \/ (key[j] = key[i] /\ j < i)})
    IN <<>> \o [p \in 1..Cardinality(idx) |-> CHOOSE i \in idx : before(i) = p - 1]

\* potential_evos of a row of the sorted dataset d
PotentialEvos(d, pokemon) ==
    SortValues({i \in 1..Len(d) :
                   /\ d[i].base_total > pokemon.base_total
                   /\ d[i].type1 = pokemon.type1
                   /\ d[i].generation = pokemon.generation},
               [i \in 1..Len(d) |-> d[i].base_total])

\* the loop over potential_evos, from the k-th on
RECURSIVE ExtendChain(_, _, _, _, _, _, _)
ExtendChain(d, evos, k, base_name, base_stats, chain, processed) ==
    IF k > Len(evos) THEN [chain |-> chain, processed |-> processed]
    ELSE LET evo == d[evos[k]]
             evo_name == Upper(evo.name)
         IN IF /\ evo_name \notin processed
               /\ \/ StartsWithFirstFour(evo_name, base_name)
                  \/ evo.base_total - base_stats < 100
            THEN ExtendChain(d, evos, k + 1, base_name, evo.base_total,
                             Append(chain, [branch |-> FALSE, names |-> <<evo_name>>]),
                             processed \cup {evo_name})
            ELSE ExtendChain(d, evos, k + 1, base_name, base_stats, chain, processed)

\* evolution_chains after the assignments made for a chain
WithChain(evolution_chains, name, chain) ==
    IF Len(chain) > 1
    THEN [n \in {chain[i].names[1] : i \in 2..(Len(chain) - 1)} |->
              SubSeq(chain, IndexIn(n, chain), Len(chain))]
             @@ (name :> chain) @@ evolution_chains
    ELSE evolution_chains

\* one pass of the loop over the rows of the sorted dataset d: processed and
\* evolution_chains after the row pokemon, from those before it
AfterRow(d, pokemon, before) ==
    LET name == Upper(pokemon.name)
        r == ExtendChain(d, PotentialEvos(d, pokemon), 1, get_base_name(name),
                         pokemon.base_total,
                         <<[branch |-> FALSE, names |-> <<name>>]>>,
                         before.processed \cup {name})
    IN IF name \in before.processed THEN before
       ELSE [processed |-> r.processed,
             evolution_chains |-> WithChain(before.evolution_chains, name, r.chain)]

\* processed and evolution_chains after the first k rows of the sorted
\* dataset d
RECURSIVE GenerateUpTo(_, _)
GenerateUpTo(d, k) ==
    IF k = 0 THEN [processed |-> {}, evolution_chains |-> [n \in {} |-> <<>>]]
    ELSE AfterRow(d, d[k], GenerateUpTo(d, k - 1))

\* df.sort_values('pokedex_number')
SortedByNumber(d) ==
    LET order == SortValues(1..Len(d), [i \in 1..Len(d) |-> d[i].pokedex_number])
    IN <<>> \o [k \in 1..Len(d) |-> d[order[k]]]

generate_evolution_chains(d) ==
    LET sorted == SortedByNumber(d) IN GenerateUpTo(sorted, Len(sorted)).evolution_chains

\* evolution_chains.json of each dataset
EvolutionChainsFile ==
    [d \in {} |-> <<>>] @@ [d \in Datasets |-> generate_evolution_chains(d)]

\* self.evolution_chains
evolution_chains == EvolutionChainsFile[df]

\* self.evolution_chains.get(name_upper, [])
ChainGet(table, name_upper) == IF name_upper \in DOMAIN table THEN table[name_upper] ELSE <<>>

\* get_evolution_info once the chain was looked up: the exception it raises
\* (chain.index of a name that is not in the list), or the stage, the number
\* of stages and the flag
StageInfo(name_upper, chain) ==
    IF chain = <<>>
    THEN [raised |-> "none", stage |-> 0, total_stages |-> 0, can_evolve |-> FALSE]
    ELSE IF chain[Len(chain)].branch
    THEN IF InChain(name_upper, chain)
         THEN [raised |-> "none", stage |-> IndexIn(name_upper, chain),
               total_stages |-> Len(chain),
               can_evolve |-> IndexIn(name_upper, chain) < Len(chain)]
         ELSE [raised |-> "none", stage |-> 1, total_stages |-> Len(chain),
               can_evolve |-> 1 < Len(chain)]
    ELSE IF ~InChain(name_upper, chain)
    THEN [raised |-> "ValueError", stage |-> 0, total_stages |-> 0, can_evolve |-> FALSE]
    ELSE [raised |-> "none", stage |-> IndexIn(name_upper, chain),
          total_stages |-> Len(chain),
          can_evolve |-> IndexIn(name_upper, chain) < Len(chain)]

get_evolution_info(pokemon_name) ==
    StageInfo(Upper(pokemon_name), ChainGet(evolution_chains, Upper(pokemon_name)))

\* the formatted candidate: evolution_stage is "Stage s/t", or "Final Form"
\* when there are no stages; raised is the exception of get_evolution_info
Formatted(pokemon, evo_info) ==
    [name |-> pokemon.name, type1 |-> pokemon.type1, type2 |-> pokemon.type2,
     base_total |-> pokemon.base_total,
     evolution_stage |->
         IF evo_info.total_stages > 0
         THEN [text |-> "Stage", stage |-> evo_info.stage,
               total_stages |-> evo_info.total_stages]
         ELSE [text |-> "Final Form", stage |-> 0, total_stages |-> 0],
     can_evolve |-> evo_info.can_evolve,
     raised |-> evo_info.raised]

_format_pokemon(pokemon) == Formatted(pokemon, get_evolution_info(pokemon.name))

FormatAll(rows) == [i \in 1..Len(rows) |-> _format_pokemon(rows[i])]

ReplacementRows(name, team, sum, n) ==
    {i \in 1..Len(df) :
        /\ InStatRange(df[i].base_total, sum, n)
        /\ df[i].type1 # get_pokemon_data(name).type1
        /\ ~IsIn(df[i].name, team)
        /\ ~df[i].is_legendary}

CounterRows(weakness, team, sum, n) ==
    {i \in 1..Len(df) :
        /\ df[i].against[weakness] < One
        /\ InStatRange(df[i].base_total, sum, n)
        /\ ~IsIn(df[i].name, team)
        /\ ~df[i].is_legendary}

DuplicateSuggestions(order, team, team_data, sum, n) ==
    LET duplicates == Duplicates(team_data) IN
    [k \in 1..Len(order) |->
        [type |-> "duplicate", pokemon |-> order[k], count |-> duplicates[order[k]],
         weakness |-> "",
         replacements |-> FormatAll(NLargest(ReplacementRows(order[k], team, sum, n), SuggestionCap)),
         counters |-> <<>>]]

RECURSIVE WeaknessSuggestions(_, _, _, _, _)
WeaknessSuggestions(weaknesses, k, team, sum, n) ==
    IF k > Len(weaknesses) THEN <<>>
    ELSE LET counters == NLargest(CounterRows(weaknesses[k], team, sum, n), SuggestionCap)
             rest == WeaknessSuggestions(weaknesses, k + 1, team, sum, n)
         IN IF counters # <<>>
            THEN <<[type |-> "weakness", pokemon |-> EmptyStr, count |-> 0,
                    weakness |-> weaknesses[k],
                    replacements |-> <<>>,
                    counters |-> FormatAll(counters)]>> \o rest
            ELSE rest

_get_suggestions(order, team, team_data, sum, n) ==
    DuplicateSuggestions(order, team, team_data, sum, n)
        \o WeaknessSuggestions(_analyze_defense(team_data).weaknesses, 1, team, sum, n)

NoReport == [made |-> FALSE]

\* _format_pokemon raised while the suggestions were made
SuggestionsRaise(suggestions) ==
    \E k \in 1..Len(suggestions) :
        \/ \E i \in 1..Len(suggestions[k].replacements) :
               suggestions[k].replacements[i].raised # "none"
        \/ \E i \in 1..Len(suggestions[k].counters) :
               suggestions[k].counters[i].raised # "none"

\* the end of analyze_team: the exception _format_pokemon raised, or the report
ReportWith(team_data, suggestions) ==
    IF SuggestionsRaise(suggestions)
    THEN [raised |-> "ValueError", report |-> NoReport]
    ELSE [raised |-> "none",
          report |-> [made |-> TRUE,
                      defense |-> _analyze_defense(team_data),
                      offense |-> _analyze_offense(team_data),
                      balance |-> _analyze_balance(team_data),
                      suggestions |-> suggestions]]

\* the outcome of TeamAnalyzer.analyze_team: the exception raised, or the
\* report.  order is the iteration order of the duplicates dict.
TeamAnalyzer_analyze_team(team, order) ==
    IF \E i \in 1..Len(team) : ~Found(team[i])
    THEN [raised |-> "IndexError", report |-> NoReport]
    ELSE IF Len(team) = 0
    THEN [raised |-> "ZeroDivisionError", report |-> NoReport]
    ELSE LET team_data == TeamData(team)
             sum == SumSeq([i \in 1..Len(team) |-> team_data[i].base_total], Len(team))
         IN ReportWith(team_data, _get_suggestions(order, team, team_data, sum, Len(team)))

\* the iteration orders of the duplicates dict of a team
DuplicateOrders(team) ==
    IF \E i \in 1..Len(team) : ~Found(team[i]) THEN {<<>>}
    ELSE Orders(DOMAIN Duplicates(TeamData(team)))

----------------------------------------------------------------------------
(* main.py *)

TeamSize == 6

\* df[df['name'].str.upper() == stage]
UpperMatches(stage) == {i \in 1..Len(df) : Upper(df[i].name) = stage}

\* a chain element as get_full_evolution_chain reads it: the first option
\* of a branch
FirstOption(stage) == stage.names[1]

\* analyze_evolution_options: the exception it raises, or the kind of text
\* it returns
analyze_evolution_options(pokemon_name) ==
    LET r == get_evolution_chain(pokemon_name) IN
    IF ~r.found
    THEN [raised |-> "none", out |-> "no_evolution_data"]
    ELSE IF UpperMatches(Upper(pokemon_name)) = {}
    THEN [raised |-> "IndexError", out |-> "none"]
    ELSE IF Len(r.chain) <= 1
    THEN [raised |-> "none", out |-> "fully_evolved"]
    ELSE IF \E i \in 1..Len(r.chain) : UpperMatches(FirstOption(r.chain[i])) = {}
    THEN [raised |-> "IndexError", out |-> "none"]
    ELSE IF \E j \in 1..Len(r.chain[2].names) : UpperMatches(r.chain[2].names[j]) = {}
    THEN [raised |-> "IndexError", out |-> "none"]
    ELSE [raised |-> "none", out |-> "evolution_analysis"]

\* analyze_team of main.py on the fields of the input line (split at the
\* commas, each stripped): what it prints, the report it got, and the
\* exception its try block caught
main_analyze_team_no_length_check(team, order) ==
    LET a == TeamAnalyzer_analyze_team(team, order) IN
    IF a.raised = "IndexError"
    THEN [out |-> "not_found", report |-> NoReport, raised |-> a.raised, called |-> TRUE]
    ELSE IF a.raised # "none"
    THEN [out |-> "error", report |-> NoReport, raised |-> a.raised, called |-> TRUE]
    ELSE [out |-> "report", report |-> a.report, raised |-> "none", called |-> TRUE]

main_analyze_team(team, order) ==
    IF Len(team) # TeamSize
    THEN [out |-> "need_exactly_6", report |-> NoReport, raised |-> "none", called |-> FALSE]
    ELSE LET a == TeamAnalyzer_analyze_team(team, order) IN
         IF a.raised = "IndexError"
         THEN [out |-> "not_found", report |-> NoReport, raised |-> a.raised, called |-> TRUE]
         ELSE IF a.raised # "none"
         THEN [out |-> "error", report |-> NoReport, raised |-> a.raised, called |-> TRUE]
         ELSE [out |-> "report", report |-> a.report, raised |-> "none", called |-> TRUE]

calculate_stat_changes_reversed(base_pokemon, evolved_form) ==
    [stat \in Stats |-> StatOf(base_pokemon, stat) - StatOf(evolved_form, stat)]

\* {stat: evolved_form[stat] - base_pokemon[stat] for stat in stats}
calculate_stat_changes(base_pokemon, evolved_form) ==
    [stat \in Stats |-> StatOf(evolved_form, stat) - StatOf(base_pokemon, stat)]

\* a tag of the benefits or drawbacks list: its text up to the figures, the
\* figure it shows, and the types a type change shows
Tag(text, amount) == [tag |-> text, amount |-> amount, old |-> <<>>, new |-> <<>>]

NoTags == [benefits |-> <<>>, drawbacks |-> <<>>]

OffensiveTags(offensive_change) ==
    IF offensive_change > 30
    THEN [benefits |-> <<Tag("Strong offensive improvement", offensive_change)>>,
          drawbacks |-> <<>>]
    ELSE IF offensive_change < 0
    THEN [benefits |-> <<>>,
          drawbacks |-> <<Tag("Decreased offensive capability", offensive_change)>>]
    ELSE NoTags

DefensiveTagsFromTwenty(defensive_change) ==
    IF defensive_change > 45
    THEN [benefits |-> <<Tag("Major defensive boost", defensive_change)>>, drawbacks |-> <<>>]
    ELSE IF defensive_change >= 20
    THEN [benefits |-> <<Tag("Improved survivability", defensive_change)>>, drawbacks |-> <<>>]
    ELSE NoTags

DefensiveTags(defensive_change) ==
    IF defensive_change > 45
    THEN [benefits |-> <<Tag("Major defensive boost", defensive_change)>>, drawbacks |-> <<>>]
    ELSE IF defensive_change > 20
    THEN [benefits |-> <<Tag("Improved survivability", defensive_change)>>, drawbacks |-> <<>>]
    ELSE NoTags

SpeedTagsFromZero(speed) ==
    IF speed > 20
    THEN [benefits |-> <<Tag("Significant speed boost", speed)>>, drawbacks |-> <<>>]
    ELSE IF speed >= 0
    THEN [benefits |-> <<Tag("Slight speed improvement", speed)>>, drawbacks |-> <<>>]
    ELSE IF speed < 0
    THEN [benefits |-> <<>>, drawbacks |-> <<Tag("Speed decrease", speed)>>]
    ELSE NoTags

SpeedTags(speed) ==
    IF speed > 20
    THEN [benefits |-> <<Tag("Significant speed boost", speed)>>, drawbacks |-> <<>>]
    ELSE IF speed > 0
    THEN [benefits |-> <<Tag("Slight speed improvement", speed)>>, drawbacks |-> <<>>]
    ELSE IF speed < 0
    THEN [benefits |-> <<>>, drawbacks |-> <<Tag("Speed decrease", speed)>>]
    ELSE NoTags

\* x != y on two cells of a type column: a missing cell is the float nan,
\* which != finds unequal to every value, nan included
NotEqual(x, y) == x = NaN \/ y = NaN \/ x # y

\* the types a type change shows: type2 is appended when pd.notna(type2)
TypesShown(pokemon) ==
    IF pokemon.type2 # NaN THEN <<pokemon.type1, pokemon.type2>> ELSE <<pokemon.type1>>

TypeTags(current, evolved) ==
    IF NotEqual(current.type1, evolved.type1) \/ NotEqual(current.type2, evolved.type2)
    THEN [benefits |-> <<[tag |-> "Type change", amount |-> 0,
                          old |-> TypesShown(current), new |-> TypesShown(evolved)]>>,
          drawbacks |-> <<>>]
    ELSE NoTags

analyze_evolution_option(current, evolved) ==
    LET stat_changes == calculate_stat_changes(current, evolved)
        total_change == stat_changes["hp"] + stat_changes["attack"] + stat_changes["defense"]
                            + stat_changes["sp_attack"] + stat_changes["sp_defense"]
                            + stat_changes["speed"]
        offensive == OffensiveTags(stat_changes["attack"] + stat_changes["sp_attack"])
        defensive == DefensiveTags(stat_changes["defense"] + stat_changes["sp_defense"]
                                       + stat_changes["hp"])
        speed == SpeedTags(stat_changes["speed"])
        types == TypeTags(current, evolved)
    IN [name |-> evolved.name,
        stat_changes |-> stat_changes,
        total_change |-> total_change,
        benefits |-> offensive.benefits \o defensive.benefits \o speed.benefits \o types.benefits,
        drawbacks |-> offensive.drawbacks \o defensive.drawbacks \o speed.drawbacks
                          \o types.drawbacks]


----------------------------------------------------------------------------
(* Inputs of the team analysis *)

MaxTeamLen == 3

MaxFields == 7

TeamNames ==
    {T("ODDISH"), L("ODDISH"), T("CHARMANDER"), L("CHARMANDER"), T("VENUSAUR"),
     T("SQUIRTLE"), T("MEWTWO"), T("PIKACHU")}

MenuNames == {L("ODDISH"), L("CHARMANDER"), T("PIKACHU")}

SeqsUpTo(S, lo, hi) == UNION {[1..n -> S] : n \in lo..hi}

\* lists given to TeamAnalyzer.analyze_team
TeamInputs == SeqsUpTo(TeamNames, 0, MaxTeamLen)

\* input lines of the team prompt: "".split(',') has one field
FieldInputs == SeqsUpTo(MenuNames, 1, MaxFields)

----------------------------------------------------------------------------
(* Direct calls of the team analysis *)

InitTeam ==
    /\ pc = "ready"
    /\ df \in Datasets
    /\ choice = "none"
    /\ arg = <<>>
    /\ result = NoReport
    /\ raised = "none"
    /\ caught = "none"
    /\ out = "none"

\* TeamAnalyzer(df).analyze_team(team); an exception goes to the caller
CallTeamAnalyzerAnalyzeTeam(team) ==
    /\ pc = "ready"
    /\ \E order \in DuplicateOrders(team) :
           LET a == TeamAnalyzer_analyze_team(team, order) IN
           /\ result' = a.report
           /\ raised' = a.raised
    /\ pc' = "returned"
    /\ choice' = "TeamAnalyzer.analyze_team"
    /\ arg' = team
    /\ caught' = "none"
    /\ out' = "none"
    /\ UNCHANGED df

\* analyze_team(df) of main.py with the input line's fields
CallMainAnalyzeTeam(team) ==
    /\ pc = "ready"
    /\ \E order \in DuplicateOrders(team) :
           LET m == main_analyze_team(team, order) IN
           /\ result' = m.report
           /\ raised' = m.raised
           /\ caught' = IF m.raised # "none" THEN "action" ELSE "none"
           /\ out' = m.out
    /\ pc' = "returned"
    /\ choice' = "analyze_team"
    /\ arg' = team
    /\ UNCHANGED df

NextTeam ==
    \/ \E team \in TeamInputs : CallTeamAnalyzerAnalyzeTeam(team)
    \/ \E team \in FieldInputs : CallMainAnalyzeTeam(team)

SpecTeam == InitTeam /\ [][NextTeam]_vars

----------------------------------------------------------------------------
(* Direct calls of analyze_evolution_option *)

\* rows of the dataset given as either record of a comparison
OptionRows == {Charmander, Charmeleon, Charizard, Eevee, Vaporeon, Gloom, Bellossom}

\* stat differences of a made-up evolved record, around the thresholds
OptionDeltas ==
    [hp : {0, 10}, attack : {-5, 0, 20}, defense : {0, 10, 20, 35},
     sp_attack : {0, 10, 11, 15}, sp_defense : {-1, 0, 1}, speed : {-5, 0, 1, 20, 21}]

OptionTypes == {<<L("FIRE"), NaN>>, <<L("FIRE"), L("FLYING")>>, <<L("WATER"), NaN>>}

\* a record with the given differences to current, and the given types
Evolved(current, d, types) ==
    [current EXCEPT !.name = T("EVOLVED"),
                    !.type1 = types[1],
                    !.type2 = types[2],
                    !.hp = @ + d.hp,
                    !.attack = @ + d.attack,
                    !.defense = @ + d.defense,
                    !.sp_attack = @ + d.sp_attack,
                    !.sp_defense = @ + d.sp_defense,
                    !.speed = @ + d.speed,
                    !.base_total = @ + d.hp + d.attack + d.defense + d.sp_attack
                                       + d.sp_defense + d.speed]

OptionInputs ==
    (OptionRows \X OptionRows)
        \cup {<<Charmeleon, Evolved(Charmeleon, d, types)>> :
                  d \in OptionDeltas, types \in OptionTypes}

InitOption ==
    /\ pc = "ready"
    /\ df = FullDataset
    /\ choice = "none"
    /\ arg = <<>>
    /\ result = NoReport
    /\ raised = "none"
    /\ caught = "none"
    /\ out = "none"

\* analyze_evolution_option(current, evolved)
CallAnalyzeEvolutionOption(current, evolved) ==
    /\ pc = "ready"
    /\ pc' = "returned"
    /\ choice' = "analyze_evolution_option"
    /\ arg' = <<current, evolved>>
    /\ result' = analyze_evolution_option(current, evolved)
    /\ UNCHANGED <<df, raised, caught, out>>

NextOption == \E pair \in OptionInputs : CallAnalyzeEvolutionOption(pair[1], pair[2])

SpecOption == InitOption /\ [][NextOption]_vars

----------------------------------------------------------------------------
(* The menu session: main() *)

CompareInputs == SeqsUpTo({T("ODDISH"), L("GLOOM"), T("PIKACHU")}, 1, 2)

Quit == L("QUIT")

\* the dataset was read; the loop is about to show the menu
Init ==
    /\ pc = "menu"
    /\ df \in Datasets
    /\ choice = "none"
    /\ arg = <<>>
    /\ result = NoReport
    /\ raised = "none"
    /\ caught = "none"
    /\ out = "none"

\* choice '1' with the name 'quit': break
Choose1Quit(name) ==
    /\ pc = "menu"
    /\ Lower(name) = Quit
    /\ pc' = "done"
    /\ choice' = "1"
    /\ arg' = name
    /\ result' = NoReport
    /\ raised' = "none"
    /\ caught' = "none"
    /\ out' = "none"
    /\ UNCHANGED df

\* choice '1': print(analyze_evolution_options(name.lower(), df)); an
\* exception leaves the while loop and reaches the handlers of main()
Choose1(name) ==
    /\ pc = "menu"
    /\ Lower(name) # Quit
    /\ LET a == analyze_evolution_options(Lower(name)) IN
           /\ raised' = a.raised
           /\ caught' = IF a.raised # "none" THEN "main" ELSE "none"
           /\ out' = IF a.raised # "none" THEN "an_error_occurred" ELSE a.out
           /\ pc' = IF a.raised # "none" THEN "done" ELSE "loop"
    /\ choice' = "1"
    /\ arg' = name
    /\ result' = NoReport
    /\ UNCHANGED df

\* choice '2': display_dataset_overview(df)
Choose2 ==
    /\ pc = "menu"
    /\ choice' = "2"
    /\ arg' = <<>>
    /\ result' = NoReport
    /\ raised' = "none"
    /\ caught' = "none"
    /\ out' = "overview"
    /\ pc' = "loop"
    /\ UNCHANGED df

\* choice '3': each name is printed, or reported as not found
Choose3(names) ==
    /\ pc = "menu"
    /\ choice' = "3"
    /\ arg' = names
    /\ result' = [i \in 1..Len(names) |-> MatchingRows(names[i]) # {}]
    /\ raised' = "none"
    /\ caught' = "none"
    /\ out' = "compare"
    /\ pc' = "loop"
    /\ UNCHANGED df

\* choice '4': analyze_team(df)
Choose4(team) ==
    /\ pc = "menu"
    /\ \E order \in DuplicateOrders(team) :
           LET m == main_analyze_team(team, order) IN
           /\ result' = m.report
           /\ raised' = m.raised
           /\ caught' = IF m.raised # "none" THEN "action" ELSE "none"
           /\ out' = m.out
    /\ choice' = "4"
    /\ arg' = team
    /\ pc' = "loop"
    /\ UNCHANGED df

\* choice '5': break
Choose5 ==
    /\ pc = "menu"
    /\ pc' = "done"
    /\ choice' = "5"
    /\ arg' = <<>>
    /\ result' = NoReport
    /\ raised' = "none"
    /\ caught' = "none"
    /\ out' = "thanks"
    /\ UNCHANGED df

\* any other choice
ChooseInvalid ==
    /\ pc = "menu"
    /\ choice' = "invalid"
    /\ arg' = <<>>
    /\ result' = NoReport
    /\ raised' = "none"
    /\ caught' = "none"
    /\ out' = "invalid_choice"
    /\ pc' = "loop"
    /\ UNCHANGED df

\* the next iteration of while True: show_menu() and the choice prompt
ShowMenu ==
    /\ pc = "loop"
    /\ pc' = "menu"
    /\ choice' = "none"
    /\ arg' = <<>>
    /\ result' = NoReport
    /\ raised' = "none"
    /\ caught' = "none"
    /\ out' = "none"
    /\ UNCHANGED df

Next ==
    \/ \E name \in NameInputs \cup {Quit, U("QUIT")} : Choose1Quit(name)
    \/ \E name \in NameInputs \cup {Quit, U("QUIT")} : Choose1(name)
    \/ Choose2
    \/ \E names \in CompareInputs : Choose3(names)
    \/ \E team \in FieldInputs : Choose4(team)
    \/ Choose5
    \/ ChooseInvalid
    \/ ShowMenu

Spec == Init /\ [][Next]_vars

----------------------------------------------------------------------------
(* Properties of the menu session and of the team analysis *)

\* C1: an exception raised inside a menu action is caught at that action and
\* printed, and the loop goes on to show the menu again.
C1_ErrorsKeepLoopRunning ==
    raised # "none" => (caught = "action" /\ pc = "loop")

\* the rows whose name is the given name up to letter case
RecordsNamed(name) == {i \in 1..Len(df) : Upper(df[i].name) = Upper(name)}

AllNamed(team) == \A i \in 1..Len(team) : RecordsNamed(team[i]) # {}

\* the row a team entry stands for
MemberRow(name) == df[CHOOSE i \in RecordsNamed(name) : \A j \in RecordsNamed(name) : i <= j]

TeamCalls == {"analyze_team", "TeamAnalyzer.analyze_team"}

\* C2 as stated: a list of a length other than 6 gets no report, through the
\* menu action and through TeamAnalyzer.analyze_team alike.
C2_AsStated ==
    (choice \in TeamCalls /\ Len(arg) # TeamSize) => ~result.made

\* C2 as amended: the menu action analyze_team rejects every list of a length
\* other than 6 with its message, without a report and without an exception.
C2_MenuRejectsWrongLength ==
    (choice = "analyze_team" /\ Len(arg) # TeamSize) =>
        /\ ~result.made
        /\ out = "need_exactly_6"
        /\ raised = "none"

C2_Witness ==
    /\ choice = "analyze_team"
    /\ Len(arg) = TeamSize - 1
    /\ \A i \in 1..Len(arg) : arg[i] = L("CHARMANDER")
    /\ RecordsNamed(L("CHARMANDER")) # {}
    /\ out = "need_exactly_6"
    /\ ~result.made

\* C3 as stated: TeamAnalyzer.analyze_team fails with the not-found error and
\* makes no report when some name does not match exactly one row, whether it
\* matches none or several.
C3_AsStated ==
    (choice = "TeamAnalyzer.analyze_team"
        /\ \E i \in 1..Len(arg) : Cardinality(RecordsNamed(arg[i])) # 1) =>
        (raised = "IndexError" /\ ~result.made)

\* C3 as amended: TeamAnalyzer.analyze_team fails with the not-found error and
\* makes no report when some name matches no row; when every name of a
\* non-empty list matches one row or several, it makes the report, and each
\* name stands for the first row that matches it.
C3_NotFoundAborts ==
    choice = "TeamAnalyzer.analyze_team" =>
        /\ ~AllNamed(arg) => (raised = "IndexError" /\ ~result.made)
        /\ (AllNamed(arg) /\ Len(arg) > 0) =>
               /\ raised = "none"
               /\ result.made
               /\ \A i \in 1..Len(arg) :
                      Lower(MemberRow(arg[i]).type1) \in result.offense
               /\ \A t \in Types : \A i \in 1..Len(arg) :
                      result.defense.effectiveness[t] <= MemberRow(arg[i]).against[t]

C3_Witness ==
    /\ choice = "TeamAnalyzer.analyze_team"
    /\ arg = <<L("ODDISH"), T("PIKACHU")>>
    /\ RecordsNamed(arg[1]) # {}
    /\ RecordsNamed(arg[2]) = {}
    /\ raised = "IndexError"
    /\ ~result.made

\* the candidates a suggestion lists
Candidates(s) ==
    {s.replacements[k] : k \in 1..Len(s.replacements)}
        \cup {s.counters[k] : k \in 1..Len(s.counters)}

\* C4: no candidate of any suggestion is legendary, and none is a creature
\* of the team, the team's creatures being the rows its names were resolved
\* to without regard to letter case.
C4_CandidatesOffTeamNotLegendary ==
    (choice \in TeamCalls /\ result.made) =>
        \A k \in 1..Len(result.suggestions) :
            \A c \in Candidates(result.suggestions[k]) :
                /\ \A i \in 1..Len(df) : df[i].name = c.name => ~df[i].is_legendary
                /\ \A j \in 1..Len(arg) : MemberRow(arg[j]).name # c.name

IsMinimum(v, S) == v \in S /\ \A y \in S : v <= y

\* C10: the weaknesses and the resistances of a report are disjoint, a type
\* is a weakness exactly when the least multiplier over the team's members
\* is above 1 and a resistance exactly when it is below 1, so a type whose
\* least multiplier is exactly 1 is in neither.
C10_WeaknessResistance ==
    (choice \in TeamCalls /\ result.made) =>
        LET W == {result.defense.weaknesses[k] : k \in 1..Len(result.defense.weaknesses)}
            R == {result.defense.resistances[k] : k \in 1..Len(result.defense.resistances)}
            M(t) == {MemberRow(arg[i]).against[t] : i \in 1..Len(arg)}
        IN /\ W \cap R = {}
           /\ W \cup R \subseteq Types
           /\ \A t \in Types :
                  /\ IsMinimum(result.defense.effectiveness[t], M(t))
                  /\ t \in W <=> (\A v \in M(t) : v > One)
                  /\ t \in R <=> (\E v \in M(t) : v < One)
                  /\ IsMinimum(One, M(t)) => t \notin W \cup R

C10_Witness ==
    /\ choice = "TeamAnalyzer.analyze_team"
    /\ arg = <<T("ODDISH"), T("VENUSAUR")>>
    /\ result.made
    /\ result.defense.weaknesses = <<"fire">>
    /\ result.defense.resistances = <<"water", "grass">>
    /\ result.defense.effectiveness["normal"] = One

\* the stored names of the team's members, and how often each occurs
StoredNames == {MemberRow(arg[i]).name : i \in 1..Len(arg)}

Occurrences(name) == Cardinality({i \in 1..Len(arg) : MemberRow(arg[i]).name = name})

\* the total of the members' base-stat-totals; the team average is this
\* total over Len(arg)
TeamTotal == SumSeq([i \in 1..Len(arg) |-> MemberRow(arg[i]).base_total], Len(arg))

\* a base-stat-total within 20% of the team average, both ends included
WithinFifth(base_total) ==
    /\ 5 * Len(arg) * base_total >= 4 * TeamTotal
    /\ 5 * Len(arg) * base_total <= 6 * TeamTotal

\* the rows that pass the filters of a suggestion, before the cap
Pool(s) ==
    {i \in 1..Len(df) :
        /\ WithinFifth(df[i].base_total)
        /\ \A j \in 1..Len(arg) : arg[j] # df[i].name
        /\ ~df[i].is_legendary
        /\ IF s.type = "duplicate"
           THEN df[i].type1 # MemberRow(s.pokemon).type1
           ELSE df[i].against[s.weakness] < One}

Listed(s) == IF s.type = "duplicate" THEN s.replacements ELSE s.counters

DuplicateSuggestionsFor(name) ==
    {k \in 1..Len(result.suggestions) :
        /\ result.suggestions[k].type = "duplicate"
        /\ result.suggestions[k].pokemon = name}

AtMost(a, b) == IF a <= b THEN a ELSE b

\* C11: the duplicates map of a report holds exactly the stored names that
\* occur more than once on the team, each with its number of occurrences;
\* each of them has exactly one duplicate suggestion, with that count and
\* with 3 replacements, or with the whole filtered pool when it is smaller;
\* so six names of one creature give one entry of count 6 and one duplicate
\* suggestion.
C11_Duplicates ==
    (choice \in TeamCalls /\ result.made) =>
        LET duplicates == result.balance.duplicates IN
        /\ DOMAIN duplicates = {n \in StoredNames : Occurrences(n) > 1}
        /\ \A n \in DOMAIN duplicates :
               /\ duplicates[n] = Occurrences(n)
               /\ Cardinality(DuplicateSuggestionsFor(n)) = 1
               /\ \A k \in DuplicateSuggestionsFor(n) :
                      LET s == result.suggestions[k] IN
                      /\ s.count = Occurrences(n)
                      /\ Len(s.replacements) <= 3
                      /\ Len(s.replacements) = AtMost(3, Cardinality(Pool(s)))
        /\ \A k \in 1..Len(result.suggestions) :
               result.suggestions[k].type = "duplicate" =>
                   result.suggestions[k].pokemon \in DOMAIN duplicates
        /\ (Len(arg) = 6 /\ Cardinality(StoredNames) = 1) =>
               /\ Cardinality(DOMAIN duplicates) = 1
               /\ \A n \in DOMAIN duplicates : duplicates[n] = 6
               /\ Cardinality({k \in 1..Len(result.suggestions) :
                                   result.suggestions[k].type = "duplicate"}) = 1

C11_Witness ==
    /\ choice = "analyze_team"
    /\ arg = <<L("ODDISH"), L("ODDISH"), L("ODDISH"), L("ODDISH"), L("ODDISH"), L("ODDISH")>>
    /\ result.made
    /\ DOMAIN result.balance.duplicates = {T("ODDISH")}
    /\ result.balance.duplicates[T("ODDISH")] = 6
    /\ result.suggestions[1].type = "duplicate"
    /\ result.suggestions[1].count = 6
    /\ Len(result.suggestions[1].replacements) = 3
    /\ Cardinality(Pool(result.suggestions[1])) > 3

\* C12: every suggestion lists at most 3 candidates, each with a
\* base-stat-total within 20% of the team average, in descending order of
\* base-stat-total, and no row that passes the suggestion's filters and is
\* not listed has a higher base-stat-total than a listed one.
C12_CappedBestInRange ==
    (choice \in TeamCalls /\ result.made) =>
        \A k \in 1..Len(result.suggestions) :
            LET s == result.suggestions[k]
                listed == Listed(s)
            IN /\ Len(listed) <= 3
               /\ \A i \in 1..Len(listed) : WithinFifth(listed[i].base_total)
               /\ \A i, j \in 1..Len(listed) :
                      i < j => listed[i].base_total >= listed[j].base_total
               /\ \A r \in Pool(s) :
                      (\A i \in 1..Len(listed) : listed[i].name # df[r].name) =>
                          \A i \in 1..Len(listed) : df[r].base_total <= listed[i].base_total

C12_Witness ==
    /\ choice = "TeamAnalyzer.analyze_team"
    /\ arg = <<T("ODDISH"), T("ODDISH")>>
    /\ df = FullDataset
    /\ result.made
    /\ Len(result.suggestions) > 1
    /\ LET s == result.suggestions[1] IN
       /\ s.type = "duplicate"
       /\ [i \in 1..Len(s.replacements) |-> s.replacements[i].name]
              = <<T("EEVEE"), T("SQUIRTLE"), T("CHARMANDER")>>
       /\ \E r \in Pool(s) : df[r].name = T("POLIWAG")
    /\ result.suggestions[2].type = "weakness"
    /\ Len(result.suggestions[2].counters) = 3


----------------------------------------------------------------------------
(* Properties of the stat-delta analyzer *)

OptionCalled == choice = "analyze_evolution_option"

\* the texts of the tags of a list
TagsIn(list) == {list[k].tag : k \in 1..Len(list)}

\* how many tags of a list have one of the given texts
TagCount(list, texts) == Cardinality({k \in 1..Len(list) : list[k].tag \in texts})

HpDelta == arg[2].hp - arg[1].hp
AttackDelta == arg[2].attack - arg[1].attack
DefenseDelta == arg[2].defense - arg[1].defense
SpAttackDelta == arg[2].sp_attack - arg[1].sp_attack
SpDefenseDelta == arg[2].sp_defense - arg[1].sp_defense
SpeedDelta == arg[2].speed - arg[1].speed

DefensiveDelta == DefenseDelta + SpDefenseDelta + HpDelta

\* C13: the total delta of a comparison of A with B is the sum of its six
\* per-stat deltas, and each per-stat delta is B's stat less A's.
C13_TotalIsSumOfDeltas ==
    OptionCalled =>
        /\ DOMAIN result.stat_changes = Stats
        /\ result.stat_changes["hp"] = HpDelta
        /\ result.stat_changes["attack"] = AttackDelta
        /\ result.stat_changes["defense"] = DefenseDelta
        /\ result.stat_changes["sp_attack"] = SpAttackDelta
        /\ result.stat_changes["sp_defense"] = SpDefenseDelta
        /\ result.stat_changes["speed"] = SpeedDelta
        /\ result.total_change = HpDelta + AttackDelta + DefenseDelta + SpAttackDelta
                                     + SpDefenseDelta + SpeedDelta

C13_Witness ==
    /\ OptionCalled
    /\ arg = <<Charmander, Charmeleon>>
    /\ result.stat_changes["hp"] = 19
    /\ result.stat_changes["speed"] = 15
    /\ result.total_change = 96

\* C14: the type-change tag is among the benefits exactly when the primary
\* types of the two records differ or their secondary types differ, two
\* records without a secondary type having the same secondary type.
C14_TypeChangeTag ==
    OptionCalled =>
        ("Type change" \in TagsIn(result.benefits)
            <=> (arg[1].type1 # arg[2].type1 \/ arg[1].type2 # arg[2].type2))

DefensiveTexts == {"Major defensive boost", "Improved survivability"}

\* C15 as stated: a defensive delta above 45 gets the major-boost tag only,
\* one from 20 to 45, both ends included, the improved-survivability tag
\* only, and any other no defensive tag.
C15_AsStated ==
    OptionCalled =>
        /\ DefensiveTexts \cap TagsIn(result.drawbacks) = {}
        /\ DefensiveTexts \cap TagsIn(result.benefits) =
               IF DefensiveDelta > 45 THEN {"Major defensive boost"}
               ELSE IF DefensiveDelta >= 20 THEN {"Improved survivability"}
               ELSE {}

\* C15 as amended: a defensive delta above 45 gets the major-boost tag only,
\* one above 20 and up to 45 the improved-survivability tag only, and any
\* other, 20 included, no defensive tag; no comparison gets both tags.
C15_DefensiveTag ==
    OptionCalled =>
        /\ DefensiveTexts \cap TagsIn(result.drawbacks) = {}
        /\ TagCount(result.benefits, DefensiveTexts) <= 1
        /\ DefensiveTexts \cap TagsIn(result.benefits) =
               IF DefensiveDelta > 45 THEN {"Major defensive boost"}
               ELSE IF DefensiveDelta > 20 THEN {"Improved survivability"}
               ELSE {}

C15_Witness ==
    /\ OptionCalled
    /\ DefensiveDelta = 20
    /\ DefensiveTexts \cap TagsIn(result.benefits) = {}

SpeedTexts == {"Significant speed boost", "Slight speed improvement", "Speed decrease"}

\* the speed tags of the result, benefits and drawbacks apart
SpeedBenefits == SpeedTexts \cap TagsIn(result.benefits)
SpeedDrawbacks == SpeedTexts \cap TagsIn(result.drawbacks)

SpeedTagCount == TagCount(result.benefits, SpeedTexts) + TagCount(result.drawbacks, SpeedTexts)

\* C16 as stated: a speed delta above 20 gets the significant-boost benefit,
\* one from 0 to 20, both ends included, the slight-improvement benefit, a
\* negative one the speed-decrease drawback; every comparison gets exactly
\* one speed tag, whatever its other tags.
C16_AsStated ==
    OptionCalled =>
        /\ SpeedTagCount = 1
        /\ SpeedDelta > 20 => SpeedBenefits = {"Significant speed boost"}
        /\ (0 <= SpeedDelta /\ SpeedDelta <= 20) => SpeedBenefits = {"Slight speed improvement"}
        /\ SpeedDelta < 0 => SpeedDrawbacks = {"Speed decrease"}

\* C16 as amended: a speed delta above 20 gets the significant-boost
\* benefit, one from 1 to 20 the slight-improvement benefit, a negative one
\* the speed-decrease drawback, and a speed delta of 0 no speed tag; a
\* comparison gets exactly one speed tag unless its speed delta is 0, and
\* the speed tag depends on the speed delta alone.
C16_SpeedTag ==
    OptionCalled =>
        /\ SpeedTagCount = IF SpeedDelta = 0 THEN 0 ELSE 1
        /\ SpeedBenefits =
               IF SpeedDelta > 20 THEN {"Significant speed boost"}
               ELSE IF SpeedDelta > 0 THEN {"Slight speed improvement"}
               ELSE {}
        /\ SpeedDrawbacks = IF SpeedDelta < 0 THEN {"Speed decrease"} ELSE {}

C16_Witness ==
    /\ OptionCalled
    /\ SpeedDelta = 0
    /\ SpeedTagCount = 0
    /\ DefensiveDelta > 45
    /\ "Major defensive boost" \in TagsIn(result.benefits)

----------------------------------------------------------------------------
(* Properties of the resolver *)

Keys == {SPECIAL_CHAINS[k].key : k \in 1..Len(SPECIAL_CHAINS)}

TableNames == {U(t) : t \in TableTexts}

Plain(name) == [branch |-> FALSE, names |-> <<name>>]

Occurs(name, chain) == InChain(name, chain) \/ InBranch(name, chain)

\* the unevolved form of a family: a key that no other key's chain contains
IsBaseForm(b) ==
    /\ b \in Keys
    /\ \A k \in 1..Len(SPECIAL_CHAINS) :
           SPECIAL_CHAINS[k].key # b => ~Occurs(b, SPECIAL_CHAINS[k].chain)

BaseForms == {b \in Keys : IsBaseForm(b)}

\* the full chains of the families a name belongs to
FamilyChains(name) ==
    {ChainOfKey(b) : b \in {x \in BaseForms : Occurs(name, ChainOfKey(x))}}

IsSuffix(s, t) ==
    /\ Len(s) <= Len(t)
    /\ \A i \in 1..Len(s) : s[i] = t[Len(t) - Len(s) + i]

\* position of the stage of a family chain that holds the name
StageOf(name, chain) ==
    CHOOSE i \in 1..Len(chain) :
        \E j \in 1..Len(chain[i].names) : chain[i].names[j] = name

StageNames(stage) == {stage.names[j] : j \in 1..Len(stage.names)}

\* C5 as stated: every name of the chain table, branch members included,
\* resolves to a chain that starts with the base form of its family and is a
\* suffix of the base form's chain.
C5_AsStated ==
    (choice = "get_evolution_chain" /\ Upper(arg) \in TableNames) =>
        /\ result.found
        /\ \A b \in BaseForms :
               Occurs(Upper(arg), ChainOfKey(b)) =>
                   /\ result.chain[1] = Plain(b)
                   /\ IsSuffix(result.chain, get_evolution_chain(b).chain)

\* C5 as amended: every name of the chain table, in any letter case, resolves
\* to a chain whose first element is that name's own stage; when the name is a
\* plain stage of its family's chain the result is a suffix of the chain the
\* base form resolves to, and when it occurs only inside a branch set the
\* result is the single-element chain holding the name.
C5_OwnStageAndSuffix ==
    (choice = "get_evolution_chain" /\ Upper(arg) \in TableNames) =>
        /\ result.found
        /\ Len(result.chain) >= 1
        /\ result.chain[1] = Plain(Upper(arg))
        /\ \A b \in BaseForms :
               /\ InChain(Upper(arg), ChainOfKey(b)) =>
                      IsSuffix(result.chain, get_evolution_chain(b).chain)
               /\ (InBranch(Upper(arg), ChainOfKey(b)) /\ ~InChain(Upper(arg), ChainOfKey(b))) =>
                      result.chain = <<Plain(Upper(arg))>>

C5_Witness ==
    /\ choice = "get_evolution_chain"
    /\ arg = L("IVYSAUR")
    /\ result = SomeChain(<<P("IVYSAUR"), P("VENUSAUR")>>)

\* the resolver of section 4.1: key, else plain stage of some chain, else
\* member of some branch set, else not found
ChainsWithPlain(name) ==
    {k \in 1..Len(SPECIAL_CHAINS) : InChain(name, SPECIAL_CHAINS[k].chain)}

ChainsWithBranch(name) ==
    {k \in 1..Len(SPECIAL_CHAINS) : InBranch(name, SPECIAL_CHAINS[k].chain)}

FirstOf(S) == CHOOSE k \in S : \A m \in S : k <= m

resolveChain(name) ==
    LET u == Upper(name) IN
    IF u \in Keys
    THEN SomeChain((CHOOSE e \in {SPECIAL_CHAINS[k] : k \in 1..Len(SPECIAL_CHAINS)} : e.key = u).chain)
    ELSE IF ChainsWithPlain(u) # {}
    THEN LET chain == SPECIAL_CHAINS[FirstOf(ChainsWithPlain(u))].chain IN
         SomeChain(SubSeq(chain, IndexIn(u, chain), Len(chain)))
    ELSE IF ChainsWithBranch(u) # {}
    THEN SomeChain(<<Plain(u)>>)
    ELSE NoChain

\* C6: get_evolution_chain returns, for every name in every letter case, what
\* the resolver of section 4.1 returns.
C6_EqualsReference ==
    choice = "get_evolution_chain" => result = resolveChain(arg)

C6_Witness ==
    /\ choice = "get_evolution_chain"
    /\ arg = L("ODDISH")
    /\ result = SomeChain(<<P("ODDISH"), P("GLOOM"), B(<<"VILEPLUME", "BELLOSSOM">>)>>)

\* C7: the final stage of a creature with a chain has no next stage; for a
\* branch set this holds of every member.
C7_FinalHasNoNext ==
    (choice = "get_final_evolution" /\ result.found) =>
        \A F \in StageNames(result) : get_next_evolution(F) = NoStage

C7_Witness ==
    /\ choice = "get_final_evolution"
    /\ arg = T("POLIWAG")
    /\ result.found /\ result.branch
    /\ StageNames(result) = {U("POLIWRATH"), U("POLITOED")}

\* the element after the name's own stage in its family's full chain
nextStage(name) ==
    LET u == Upper(name) IN
    IF FamilyChains(u) = {} THEN NoStage
    ELSE LET full == CHOOSE c \in FamilyChains(u) : TRUE
             i == StageOf(u, full) IN
         IF i < Len(full) THEN SomeStage(full[i + 1]) ELSE NoStage

\* C8: get_next_evolution returns the element that follows the name's own
\* stage in its chain (the whole branch set when that element is a branch),
\* and None for a final or unknown name; IVYSAUR's next stage is VENUSAUR.
C8_NextStage ==
    choice = "get_next_evolution" =>
        /\ result = nextStage(arg)
        /\ Upper(arg) = U("IVYSAUR") => result = SomeStage(P("VENUSAUR"))
        /\ Upper(arg) \notin TableNames => result = NoStage

C8_Witness ==
    /\ choice = "get_next_evolution"
    /\ arg = L("POLIWHIRL")
    /\ result.found /\ result.branch
    /\ StageNames(result) = {U("POLIWRATH"), U("POLITOED")}

\* the last element of the chain the name resolves to: the last element of
\* the family's full chain for a plain stage, the name itself for a member of
\* a branch set
finalStage(name) ==
    LET u == Upper(name) IN
    IF FamilyChains(u) = {} THEN NoStage
    ELSE LET full == CHOOSE c \in FamilyChains(u) : TRUE IN
         IF InChain(u, full) THEN SomeStage(full[Len(full)])
         ELSE SomeStage(Plain(u))

\* C9: get_final_evolution returns the last element of the name's chain, the
\* whole branch set when the chain ends in a branch, and None for an unknown
\* name; GLOOM ends in {VILEPLUME, BELLOSSOM} and BULBASAUR in VENUSAUR.
C9_FinalStage ==
    choice = "get_final_evolution" =>
        /\ result = finalStage(arg)
        /\ Upper(arg) = U("GLOOM") =>
               result.found /\ result.branch
                   /\ StageNames(result) = {U("VILEPLUME"), U("BELLOSSOM")}
        /\ Upper(arg) = U("BULBASAUR") => result = SomeStage(P("VENUSAUR"))
        /\ Upper(arg) \notin TableNames => result = NoStage

C9_Witness ==
    /\ choice = "get_final_evolution"
    /\ arg = L("GLOOM")
    /\ result.found /\ result.branch
    /\ StageNames(result) = {U("VILEPLUME"), U("BELLOSSOM")}

----------------------------------------------------------------------------
(* Properties of the evolution annotation of candidates *)

\* C17: the evolution annotation of every candidate of a report agrees with
\* the resolver: its can-evolve flag is true exactly when get_next_evolution
\* of the candidate's name finds a next stage, and its stage is the position
\* of the candidate in the full chain of its family in the resolver's table.
C17_AnnotationAgreesWithResolver ==
    (choice \in TeamCalls /\ result.made) =>
        \A k \in 1..Len(result.suggestions) :
            \A c \in Candidates(result.suggestions[k]) :
                /\ c.can_evolve <=> get_next_evolution(c.name).found
                /\ \A full \in FamilyChains(Upper(c.name)) :
                       c.evolution_stage.stage = StageOf(Upper(c.name), full)

====
